---- MODULE Spec2Model ----
(***************************************************************************)
(* amocrm_api_middleware: the OAuth client (OAuthClient) and the chunked   *)
(* file uploader (FileUploadManager) of oauth/client.py.                   *)
(*                                                                         *)
(* Spec        the credential life cycle of one OAuthClient instance       *)
(* UploadSpec  the upload protocol of one FileUploadManager instance       *)
(*                                                                         *)
(* The requests library is the environment: every call the code makes to   *)
(* requests.get/post/patch/put is recorded, and its outcome (a transport   *)
(* exception, or a response with a status and a JSON body) is chosen       *)
(* nondeterministically.                                                   *)
(***************************************************************************)
EXTENDS Integers, Sequences, FiniteSets, TLC

(***************************************************************************)
(* Python values                                                           *)
(***************************************************************************)
\* Python's None, for an Optional[str]; no token or URL is this string.
None == "<None>"

\* The truth value Python gives an Optional[str]: None and "" are false.
Truthy(x) == x # None /\ x # ""

\* What an f-string makes of an Optional[str].
Str(x) == IF x = None THEN "None" ELSE x

\* requests refuses a URL without a scheme (MissingSchema, a RequestException).
HasScheme(url) == Len(url) >= 8 /\ SubSeq(url, 1, 8) = "https://"

(***************************************************************************)
(* Inputs of the OAuth client                                              *)
(***************************************************************************)
Subdomains == {"acme", "beta"}
AuthCodes == {"code1"}
\* Tokens a caller installs out of band ("" is a str the type hints allow).
InstallAccess == {"", "A1"}
InstallRefresh == {"", "R1"}
InstallLongLive == {"", "L1"}
\* Tokens the token endpoint answers with; None: the key is not in the JSON.
RespAccess == {None, "A2", "A3"}
RespRefresh == {None, "R2", "R3"}
HttpMethods == {"GET", "POST", "PATCH", "PUT", "DELETE"}
Endpoints == {"api/v4/domain"}

\* What the requests library does with one call of the OAuth client: it raises
\* a RequestException (transport), or returns a response with a status and a
\* JSON body (read only where the code reads it).
TokenOutcomes ==
    {[transport |-> TRUE, status |-> 0, access_token |-> None,
      refresh_token |-> None]}
    \cup [transport : {FALSE}, status : {201, 400}, access_token : {None},
          refresh_token : {None}]
    \cup [transport : {FALSE}, status : {200}, access_token : RespAccess,
          refresh_token : RespRefresh]
ApiOutcomes ==
    {[transport |-> TRUE, status |-> 0, json |-> "not json"]}
    \cup [transport : {FALSE}, status : {200, 401}, json : {"{}", "not json"}]

VARIABLES
    \* OAuthClient fields (client.py:26-31)
    access_token, refresh_token, longlive_token, base_url,
    \* the last OAuthClient operation: its name, the exception it raised (None:
    \* it returned), its return value, the requests calls it made, and its
    \* inputs: the caller's arguments and what the environment answered
    lastOp, error, result, sent, args,
    \* the install operations called so far (set_oauth_credentials,
    \* set_longlive_token), each once, in the order of their latest calls
    installOrder,
    \* FileUploadManager fields (client.py:224-225)
    fum_access_token, max_part_size,
    \* upload_file's position and locals, the generator's file and cursor
    pc, file, pos, fileOpen, part, upload_url,
    \* the requests calls of the running upload_file and their outcomes
    sessionLog, chunkLog, respLog, upError,
    \* whether an upload_file call of this manager ended before the latest began
    reused

credVars == <<access_token, refresh_token, longlive_token, base_url,
              lastOp, error, result, sent, args, installOrder>>
upVars == <<fum_access_token, max_part_size, pc, file, pos, fileOpen, part,
            upload_url, sessionLog, chunkLog, respLog, upError, reused>>
vars == <<credVars, upVars>>

(***************************************************************************)
(* OAuthClient                                                             *)
(***************************************************************************)
NoData == [data |-> None]
NoResult == [value |-> None]

\* OAuthClient.__init__
OAuthInit ==
    /\ access_token = None
    /\ refresh_token = None
    /\ longlive_token = None
    /\ base_url = None
    /\ lastOp = "__init__"
    /\ error = None
    /\ result = NoResult
    /\ sent = <<>>
    /\ args = [config |-> "OAuthConfig"]
    /\ installOrder = <<>>

\* f"https://{subdomain}.amocrm.ru"
BaseUrlOf(subdomain) == "https://" \o subdomain \o ".amocrm.ru"

\* _make_request: the call made to requests (none for an unsupported method),
\* the exception raised (a RequestException becomes OAuthError, the ValueError
\* of an unsupported method is outside the except clause's types) and the
\* response.
_make_request(url, method, headers, data, o) ==
    [call |-> IF method \in {"GET", "POST", "PATCH", "PUT"}
              THEN <<[fn |-> method, url |-> url, headers |-> headers,
                      json |-> IF method = "GET" THEN NoData ELSE data]>>
              ELSE <<>>,
     error |-> IF method \notin {"GET", "POST", "PATCH", "PUT"}
               THEN "ValueError: Unsupported HTTP method"
               ELSE IF ~HasScheme(url) \/ o.transport
                    THEN "OAuthError: Request failed"
                    ELSE None,
     response |-> o]

\* _make_post_request: any status but 200 raises OAuthError.
_make_post_request(url, data, o) ==
    LET r == _make_request(url, "POST", "", data, o)
    IN [call |-> r.call,
        error |-> IF r.error # None THEN r.error
                  ELSE IF o.status # 200 THEN "OAuthError: Failed to post"
                  ELSE None,
        token_data |-> [access_token |-> o.access_token,
                        refresh_token |-> o.refresh_token]]

\* A reading of the token response that insists on both keys.
TokenErrorBothKeys(r) ==
    IF r.error # None THEN r.error
    ELSE IF r.token_data.access_token = None THEN "KeyError: access_token"
    ELSE IF r.token_data.refresh_token = None THEN "KeyError: refresh_token"
    ELSE None

\* token_data["access_token"] raises KeyError when the key is missing.
TokenError(r) ==
    IF r.error # None THEN r.error
    ELSE IF r.token_data.access_token = None THEN "KeyError: access_token"
    ELSE None

\* The install operations in the order of their latest calls, after a call of op.
Installed(order, op) == SelectSeq(order, LAMBDA x : x # op) \o <<op>>

\* set_oauth_credentials
\* An install of the two tokens that takes no base_url from the subdomain.
set_oauth_credentials_tokens_only(a, r, subdomain) ==
    /\ access_token' = a
    /\ refresh_token' = r
    /\ lastOp' = "set_oauth_credentials"
    /\ error' = None
    /\ result' = [value |-> "True"]
    /\ sent' = <<>>
    /\ args' = [access_token |-> a, refresh_token |-> r, subdomain |-> subdomain]
    /\ installOrder' = Installed(installOrder, "set_oauth_credentials")
    /\ UNCHANGED <<base_url, longlive_token, upVars>>

set_oauth_credentials(a, r, subdomain) ==
    /\ base_url' = BaseUrlOf(subdomain)
    /\ access_token' = a
    /\ refresh_token' = r
    /\ lastOp' = "set_oauth_credentials"
    /\ error' = None
    /\ result' = [value |-> "True"]
    /\ sent' = <<>>
    /\ args' = [access_token |-> a, refresh_token |-> r, subdomain |-> subdomain]
    /\ installOrder' = Installed(installOrder, "set_oauth_credentials")
    /\ UNCHANGED <<longlive_token, upVars>>

\* set_longlive_token
set_longlive_token(t, subdomain) ==
    /\ base_url' = BaseUrlOf(subdomain)
    /\ longlive_token' = t
    /\ lastOp' = "set_longlive_token"
    /\ error' = None
    /\ result' = [value |-> "True"]
    /\ sent' = <<>>
    /\ args' = [longlive_token |-> t, subdomain |-> subdomain]
    /\ installOrder' = Installed(installOrder, "set_longlive_token")
    /\ UNCHANGED <<access_token, refresh_token, upVars>>

\* An assignment made whether or not the call before it raised.
AssignedAnyway(old, new, e) == new

\* A field assigned after the call of _make_post_request: the assignment is
\* not reached when the call (or the subscript before it) raised.
Assigned(old, new, e) == IF e = None THEN new ELSE old

\* A get_access_token that undoes its assignment of base_url when the request
\* fails, by resetting the field instead of restoring its former value.
get_access_token_resets(authorization_code, subdomain, o) ==
    LET r == _make_post_request(
                 BaseUrlOf(subdomain) \o "/oauth2/access_token",
                 [client_id |-> "client_id", client_secret |-> "client_secret",
                  redirect_uri |-> "redirect_uri", code |-> authorization_code,
                  grant_type |-> "authorization_code"], o)
        e == TokenError(r)
    IN /\ base_url' = IF e = None THEN BaseUrlOf(subdomain) ELSE None
       /\ access_token' = Assigned(access_token, r.token_data.access_token, e)
       /\ refresh_token' = Assigned(refresh_token, r.token_data.refresh_token, e)
       /\ lastOp' = "get_access_token"
       /\ error' = e
       /\ result' = IF e = None THEN r.token_data ELSE NoResult
       /\ sent' = r.call
       /\ args' = [authorization_code |-> authorization_code,
                   subdomain |-> subdomain, outcome |-> o]
       /\ UNCHANGED <<longlive_token, installOrder, upVars>>

\* get_access_token: base_url is assigned before the request is made.
get_access_token(authorization_code, subdomain, o) ==
    LET url == BaseUrlOf(subdomain) \o "/oauth2/access_token"
        data == [client_id |-> "client_id", client_secret |-> "client_secret",
                 redirect_uri |-> "redirect_uri", code |-> authorization_code,
                 grant_type |-> "authorization_code"]
        r == _make_post_request(url, data, o)
        e == TokenError(r)
    IN /\ base_url' = BaseUrlOf(subdomain)
       /\ access_token' = Assigned(access_token, r.token_data.access_token, e)
       /\ refresh_token' = Assigned(refresh_token, r.token_data.refresh_token, e)
       /\ lastOp' = "get_access_token"
       /\ error' = e
       /\ result' = IF e = None THEN r.token_data ELSE NoResult
       /\ sent' = r.call
       /\ args' = [authorization_code |-> authorization_code,
                   subdomain |-> subdomain, outcome |-> o]
       /\ UNCHANGED <<longlive_token, installOrder, upVars>>

\* A guard that tests only for None, and lets "" through.
RefreshTokenIsNone(rt) == rt = None

\* The guard of refresh_access_token: `if not self.refresh_token`.
NoRefreshToken(rt) == ~Truthy(rt)

\* refresh_access_token
refresh_access_token(o) ==
    LET url == Str(base_url) \o "/oauth2/access_token"
        data == [client_id |-> "client_id", client_secret |-> "client_secret",
                 grant_type |-> "refresh_token",
                 refresh_token |-> refresh_token]
        r == _make_post_request(url, data, o)
        e == IF NoRefreshToken(refresh_token)
             THEN "OAuthError: No refresh token available"
             ELSE TokenError(r)
    IN /\ access_token' = Assigned(access_token, r.token_data.access_token, e)
       /\ refresh_token' = Assigned(refresh_token, r.token_data.refresh_token, e)
       /\ lastOp' = "refresh_access_token"
       /\ error' = e
       /\ result' = IF e = None THEN r.token_data ELSE NoResult
       /\ sent' = IF NoRefreshToken(refresh_token) THEN <<>> ELSE r.call
       /\ args' = [outcome |-> o]
       /\ UNCHANGED <<longlive_token, base_url, installOrder, upVars>>

\* The opposite precedence: the access token when there is one.
BearerAccessFirst(ll, at) == IF Truthy(at) THEN at ELSE ll

\* A precedence that tests the long-lived token only for None.
BearerNotNone(ll, at) == IF ll # None THEN ll ELSE at

\* The bearer of _make_authenticated_request:
\* self.longlive_token if self.longlive_token else self.access_token
Bearer(ll, at) == IF Truthy(ll) THEN ll ELSE at

\* _make_authenticated_request: no status check, response.json() is returned.
\* An authenticated request that answers a 401 by refreshing the access token
\* and sending the request again.
_make_authenticated_request_retrying(endpoint, method, data, o) ==
    LET url == Str(base_url) \o "/" \o endpoint
        headers == "Bearer " \o Str(Bearer(longlive_token, access_token))
        r == _make_request(url, method, headers, data, o)
        retry == r.error = None /\ o.status = 401 /\ Truthy(refresh_token)
        e == IF r.error # None THEN r.error
             ELSE IF o.json = "not json" THEN "JSONDecodeError"
             ELSE None
    IN /\ lastOp' = "_make_authenticated_request"
       /\ error' = e
       /\ result' = IF e = None THEN [value |-> o.json] ELSE NoResult
       /\ sent' = IF retry THEN r.call \o r.call ELSE r.call
       /\ access_token' = IF retry THEN "A2" ELSE access_token
       /\ args' = [endpoint |-> endpoint, method |-> method, data |-> data,
                   outcome |-> o]
       /\ UNCHANGED <<refresh_token, longlive_token, base_url,
                      installOrder, upVars>>

_make_authenticated_request(endpoint, method, data, o) ==
    LET url == Str(base_url) \o "/" \o endpoint
        headers == "Bearer " \o Str(Bearer(longlive_token, access_token))
        r == _make_request(url, method, headers, data, o)
        e == IF r.error # None THEN r.error
             ELSE IF o.json = "not json" THEN "JSONDecodeError"
             ELSE None
    IN /\ lastOp' = "_make_authenticated_request"
       /\ error' = e
       /\ result' = IF e = None THEN [value |-> o.json] ELSE NoResult
       /\ sent' = r.call
       /\ args' = [endpoint |-> endpoint, method |-> method, data |-> data,
                   outcome |-> o]
       /\ UNCHANGED <<access_token, refresh_token, longlive_token, base_url,
                      installOrder, upVars>>

(***************************************************************************)
(* OAuthClient: the operations that only read                              *)
(***************************************************************************)
\* self.config.client_id
ClientId == "cid-1"
\* Arguments of get_authorization_url (None: the parameter is left out).
States == {None, "", "x1", "a b", "a&mode=1"}
Modes == {None, "popup", "post_message"}

\* The i-th character of a str.
Char(s, i) == SubSeq(s, i, i)

\* Whether the str sub occurs in the str s.
Contains(s, sub) ==
    \E i \in 1..(Len(s) - Len(sub) + 1) : SubSeq(s, i, i + Len(sub) - 1) = sub

\* urllib.parse.quote_plus, on the characters of States, Modes and ClientId:
\* a space becomes "+", a reserved character its %XX, the others stay.
RECURSIVE quote_plus(_)
quote_plus(s) ==
    IF s = "" THEN ""
    ELSE LET c == Char(s, 1)
             q == IF c = " " THEN "+"
                  ELSE IF c = "&" THEN "%26"
                  ELSE IF c = "=" THEN "%3D"
                  ELSE c
         IN q \o quote_plus(SubSeq(s, 2, Len(s)))

\* _encode_params (urlencode) of the dict get_authorization_url builds: the
\* keys in insertion order, those whose value is None filtered out before.
_encode_params(client_id, state, mode) ==
    "client_id=" \o quote_plus(client_id)
    \o (IF state # None THEN "&state=" \o quote_plus(state) ELSE "")
    \o (IF mode # None THEN "&mode=" \o quote_plus(mode) ELSE "")

get_authorization_url(state, mode) ==
    /\ lastOp' = "get_authorization_url"
    /\ args' = [state |-> state, mode |-> mode]
    /\ error' = None
    /\ result' = [value |-> "https://www.amocrm.ru/oauth?"
                            \o _encode_params(ClientId, state, mode)]
    /\ sent' = <<>>
    /\ UNCHANGED <<access_token, refresh_token, longlive_token, base_url,
                   installOrder, upVars>>

\* Python's True and False, as is_token_expired returns them.
True == "True"
False == "False"

\* token.split("."): the pieces between the dots.
RECURSIVE split(_)
split(s) ==
    IF \E i \in 1..Len(s) : Char(s, i) = "."
    THEN LET i == CHOOSE j \in 1..Len(s) :
                     /\ Char(s, j) = "."
                     /\ \A k \in 1..(j - 1) : Char(s, k) # "."
         IN <<SubSeq(s, 1, i - 1)>> \o split(SubSeq(s, i + 1, Len(s)))
    ELSE <<s>>

\* An instant, in seconds since 1970-01-01T00:00:00Z, written as
\* days * 86400 + secs: the instants of year 10000 are beyond 2^31.
Instant(days, secs) == [days |-> days, secs |-> secs]
Before(a, b) == a.days < b.days \/ (a.days = b.days /\ a.secs < b.secs)

\* json.loads(base64.urlsafe_b64decode(payload_b64 + "==")) for the payload
\* segments that decode to a JSON object: the segment of {}, of {"sub":"u1"}
\* and of {"exp":N} for the instants N below. Any other segment of Tokens
\* ("" and "e3") makes b64decode or json.loads raise a ValueError.
payload ==
    [e30 |-> <<>>,
     eyJzdWIiOiJ1MSJ9 |-> [sub |-> "u1"],
     \* 2024-10-04 12:00:00, one second before it, one second after it
     eyJleHAiOjE3MjgwNDMyMDB9 |-> [exp |-> Instant(20000, 43200)],
     eyJleHAiOjE3MjgwNDMxOTl9 |-> [exp |-> Instant(20000, 43199)],
     eyJleHAiOjE3MjgwNDMyMDF9 |-> [exp |-> Instant(20000, 43201)],
     \* 2024-10-03 23:59:59, 2024-10-05 00:00:00, 2024-09-30 12:00:00
     eyJleHAiOjE3Mjc5OTk5OTl9 |-> [exp |-> Instant(19999, 86399)],
     eyJleHAiOjE3MjgwODY0MDB9 |-> [exp |-> Instant(20001, 0)],
     eyJleHAiOjE3Mjc2OTc2MDB9 |-> [exp |-> Instant(19996, 43200)],
     \* 999-12-31 23:59:59, 1000-01-01 00:00:00
     eyJleHAiOi0zMDYxMDIyNDAwMX0 |-> [exp |-> Instant(-354286, 86399)],
     eyJleHAiOi0zMDYxMDIyNDAwMH0 |-> [exp |-> Instant(-354285, 0)],
     \* 9999-12-31 23:59:59, 10000-01-01 00:00:00
     eyJleHAiOjI1MzQwMjMwMDc5OX0 |-> [exp |-> Instant(2932896, 86399)],
     eyJleHAiOjI1MzQwMjMwMDgwMH0 |-> [exp |-> Instant(2932897, 0)]]

\* Arguments of decode_jwt and is_token_expired: None, tokens of two and of
\* four segments, tokens whose payload is not JSON, and one token for each
\* segment of payload.
Tokens ==
    {None, "h.e30", "h.e30.s.x", "h..s", "h.e3.s"}
    \cup {"h." \o seg \o ".s" : seg \in DOMAIN payload}

\* What datetime.utcnow() reads while is_token_expired runs.
Nows == {Instant(20000, 43200), Instant(20000, 0)}

\* What the C library's strftime makes of %Y for a year below 1000: four
\* digits with leading zeros, or the digits of the year alone (glibc).
YearFormats == {"padded", "bare"}

\* _decode_jwt: ValueError for a token that is not three segments or whose
\* payload cannot be decoded, the payload otherwise; None has no split.
_decode_jwt(token) ==
    IF token = None THEN [error |-> "AttributeError", payload |-> <<>>]
    ELSE LET segs == split(token)
         IN IF Len(segs) # 3 \/ segs[2] \notin DOMAIN payload
            THEN [error |-> "ValueError", payload |-> <<>>]
            ELSE [error |-> None, payload |-> payload[segs[2]]]

\* dict.get(key): <<value>>, or <<>> for the None of a missing key.
get(d, key) == IF key \in DOMAIN d THEN <<d[key]>> ELSE <<>>

\* The decimal digits of a natural number; two and four digits with leading
\* zeros (strftime's %m %d %H %M %S, and %Y where the C library pads it).
Digit(n) == Char("0123456789", n + 1)
RECURSIVE Decimal(_)
Decimal(n) == IF n < 10 THEN Digit(n) ELSE Decimal(n \div 10) \o Digit(n % 10)
Pad2(n) == Digit(n \div 10) \o Digit(n % 10)
Pad4(n) == Pad2(n \div 100) \o Pad2(n % 100)

\* datetime.utcfromtimestamp: the proleptic Gregorian date and the time of day
\* of an instant; ValueError outside the years 1..9999 of datetime, TypeError
\* for None.
utcfromtimestamp(timestamp) ==
    IF timestamp = <<>> THEN [error |-> "TypeError"]
    ELSE
    LET t == timestamp[1]
        z == t.days + 719468
        era == z \div 146097
        doe == z - era * 146097
        yoe == (doe - doe \div 1460 + doe \div 36524 - doe \div 146096) \div 365
        doy == doe - (365 * yoe + yoe \div 4 - yoe \div 100)
        mp == (5 * doy + 2) \div 153
        month == IF mp < 10 THEN mp + 3 ELSE mp - 9
        year == yoe + era * 400 + (IF month <= 2 THEN 1 ELSE 0)
    IN IF year < 1 \/ year > 9999 THEN [error |-> "ValueError"]
       ELSE [error |-> None, year |-> year, month |-> month,
             day |-> doy - (153 * mp + 2) \div 5 + 1,
             hour |-> t.secs \div 3600, minute |-> (t.secs \div 60) % 60,
             second |-> t.secs % 60]

\* strftime('%Y-%m-%d %H:%M:%S')
strftime(dt, yfmt) ==
    (IF yfmt = "padded" THEN Pad4(dt.year) ELSE Decimal(dt.year))
    \o "-" \o Pad2(dt.month) \o "-" \o Pad2(dt.day)
    \o " " \o Pad2(dt.hour) \o ":" \o Pad2(dt.minute) \o ":" \o Pad2(dt.second)

\* _decode_timestamp
_decode_timestamp(timestamp, yfmt) ==
    LET decoded_time == utcfromtimestamp(timestamp)
    IN IF decoded_time.error # None THEN decoded_time
       ELSE [error |-> None, value |-> strftime(decoded_time, yfmt)]

\* Python's < on str: by the first character that differs, in code point
\* order, a proper prefix being the smaller. ord lists the characters of a
\* formatted time in that order.
ord(c) == CHOOSE i \in 1..13 : Char(" -0123456789:", i) = c
RECURSIVE StrLess(_, _)
StrLess(a, b) ==
    IF b = "" THEN FALSE
    ELSE IF a = "" THEN TRUE
    ELSE IF Char(a, 1) = Char(b, 1)
         THEN StrLess(SubSeq(a, 2, Len(a)), SubSeq(b, 2, Len(b)))
         ELSE ord(Char(a, 1)) < ord(Char(b, 1))

\* _compare_timestamp_with_current
_compare_timestamp_with_current(timestamp, now, yfmt) ==
    LET decoded_time == _decode_timestamp(timestamp, yfmt)
        current_time == strftime(utcfromtimestamp(<<now>>), yfmt)
    IN IF decoded_time.error # None THEN decoded_time
       ELSE [error |-> None,
             value |-> IF StrLess(decoded_time.value, current_time)
                       THEN True ELSE False]

\* What decode_jwt and is_token_expired return or raise, for every argument
\* and every reading of the clock.
decoded == [token \in Tokens |-> _decode_jwt(token)]
expired ==
    [token \in Tokens, now \in Nows, yfmt \in YearFormats |->
        IF token = None THEN [error |-> None, value |-> None]
        ELSE LET jwt == decoded[token]
             IN IF jwt.error # None THEN jwt
                ELSE _compare_timestamp_with_current(
                         get(jwt.payload, "exp"), now, yfmt)]

decode_jwt(token) ==
    LET jwt == decoded[token]
    IN /\ lastOp' = "decode_jwt"
       /\ args' = [token |-> token]
       /\ error' = jwt.error
       /\ result' = IF jwt.error = None THEN [value |-> jwt.payload]
                    ELSE NoResult
       /\ sent' = <<>>
       /\ UNCHANGED <<access_token, refresh_token, longlive_token, base_url,
                      installOrder, upVars>>

is_token_expired(token, now, yfmt) ==
    LET r == expired[token, now, yfmt]
    IN /\ lastOp' = "is_token_expired"
       /\ args' = [token |-> token, now |-> now]
       /\ error' = r.error
       /\ result' = IF r.error = None THEN [value |-> r.value] ELSE NoResult
       /\ sent' = <<>>
       /\ UNCHANGED <<access_token, refresh_token, longlive_token, base_url,
                      installOrder, upVars>>

(***************************************************************************)
(* FileUploadManager                                                       *)
(***************************************************************************)
\* Bounds of the upload model: the longest file, the largest max_part_size.
MaxFileSize == 5
MaxPartSize == 3

Bytes == {0, 1}
Files == UNION {[1..n -> Bytes] : n \in 0..MaxFileSize}
UploadTokens == {"A1"}
Urls == {"https://drive/u1", "https://drive/u2"}

\* What requests does with the POST of create_session / of upload_chunk: a
\* transport exception, a 4xx/5xx status (raise_for_status raises HTTPError),
\* or a 2xx response whose JSON holds the URL (None: the key is absent).
SessionOutcomes ==
    {[kind |-> "ok", upload_url |-> u] : u \in Urls \cup {None}}
    \cup {[kind |-> k, upload_url |-> None] : k \in {"status", "transport"}}
ChunkOutcomes ==
    {[kind |-> "ok", next_url |-> u] : u \in Urls \cup {None}}
    \cup {[kind |-> k, next_url |-> None] : k \in {"status", "transport"}}

\* The default of __init__'s max_part_size parameter.
DefaultMaxPartSize == 131072

\* A FileUploadManager constructed with the default max_part_size, no
\* upload_file running.
UploadInit ==
    /\ fum_access_token \in UploadTokens
    /\ max_part_size = DefaultMaxPartSize
    /\ pc = "idle"
    /\ file = <<>>
    /\ pos = 0
    /\ fileOpen = FALSE
    /\ part = <<>>
    /\ upload_url = None
    /\ sessionLog = <<>>
    /\ chunkLog = <<>>
    /\ respLog = <<>>
    /\ upError = None
    /\ reused = FALSE

\* FileUploadManager.__init__ with an explicit max_part_size: a new manager,
\* constructed while no upload_file is running; it has made no call yet.
FileUploadManager(token, size) ==
    /\ pc \in {"idle", "done", "failed"}
    /\ fum_access_token' = token
    /\ max_part_size' = size
    /\ pc' = "idle"
    /\ file' = <<>>
    /\ pos' = 0
    /\ part' = <<>>
    /\ upload_url' = None
    /\ sessionLog' = <<>>
    /\ chunkLog' = <<>>
    /\ respLog' = <<>>
    /\ upError' = None
    /\ reused' = FALSE
    /\ UNCHANGED <<fileOpen, credVars>>

\* An upload_file that resumes where the previous call stopped: it keeps the
\* cursor and, when it still has an upload URL, skips create_session.
upload_file_resumes(f) ==
    /\ pc \in {"idle", "done", "failed"}
    /\ pc' = IF upload_url = None THEN "create_session" ELSE "for"
    /\ file' = f
    /\ part' = <<>>
    /\ fileOpen' = FALSE
    /\ sessionLog' = <<>>
    /\ chunkLog' = <<>>
    /\ respLog' = <<>>
    /\ upError' = None
    /\ reused' = (pc # "idle")
    /\ UNCHANGED <<fum_access_token, max_part_size, pos, upload_url, credVars>>

\* upload_file is called (by a caller that is not inside another call of it):
\* its locals are fresh, the file's size is taken for create_session. Its
\* generator is a new one, which has not opened the file yet; fileOpen is
\* about that generator from here on.
upload_file(f) ==
    /\ pc \in {"idle", "done", "failed"}
    /\ pc' = "create_session"
    /\ file' = f
    /\ pos' = 0
    /\ part' = <<>>
    /\ fileOpen' = FALSE
    /\ upload_url' = None
    /\ sessionLog' = <<>>
    /\ chunkLog' = <<>>
    /\ respLog' = <<>>
    /\ upError' = None
    /\ reused' = (pc # "idle")
    /\ UNCHANGED <<fum_access_token, max_part_size, credVars>>

\* The exception a POST of the upload manager ends with (None: it returns).
\* requests raises MissingSchema for a URL that is None before sending anything;
\* nothing in FileUploadManager catches or translates an exception.
PostError(url, kind) ==
    IF ~HasScheme(Str(url)) THEN "requests.MissingSchema"
    ELSE IF kind = "transport" THEN "requests.ConnectionError"
    ELSE IF kind = "status" THEN "requests.HTTPError"
    ELSE None

\* create_session: one POST to the sessions endpoint; response.json()['upload_url'].
create_session(o) ==
    LET url == "https://drive-b.amocrm.ru/v1.0/sessions"
        e == IF PostError(url, o.kind) # None THEN PostError(url, o.kind)
             ELSE IF o.upload_url = None THEN "KeyError: upload_url"
             ELSE None
    IN /\ pc = "create_session"
       /\ sessionLog' = Append(sessionLog,
              [url |-> url, Authorization |-> "Bearer " \o Str(fum_access_token),
               file_size |-> Len(file), error |-> e, upload_url |-> o.upload_url])
       /\ upload_url' = IF e = None THEN o.upload_url ELSE upload_url
       /\ pc' = IF e = None THEN "for" ELSE "failed"
       /\ upError' = e
       /\ UNCHANGED <<fum_access_token, max_part_size, file, pos, fileOpen,
                      part, chunkLog, respLog, reused, credVars>>

\* A read that returns only full chunks, dropping a short tail.
ReadFullOnly(f, p, n) == IF p + n <= Len(f) THEN SubSeq(f, p + 1, p + n) ELSE <<>>

\* file.read(n) at cursor p: the next n bytes, fewer at the end of the file.
Read(f, p, n) == SubSeq(f, p + 1, IF p + n < Len(f) THEN p + n ELSE Len(f))

\* upload_file_in_parts, resumed by the for loop: the first resumption opens
\* the file; each reads a chunk and yields it, or, on an empty read, leaves the
\* with block (closing the file) and ends the loop.
upload_file_in_parts ==
    LET chunk == Read(file, pos, max_part_size)
    IN /\ pc = "for"
       /\ IF chunk # <<>>
          THEN /\ fileOpen' = TRUE
               /\ part' = chunk
               /\ pos' = pos + Len(chunk)
               /\ pc' = "upload_chunk"
          ELSE /\ fileOpen' = FALSE
               /\ pc' = "done"
               /\ UNCHANGED <<part, pos>>
       /\ UNCHANGED <<fum_access_token, max_part_size, file, upload_url,
                      sessionLog, chunkLog, respLog, upError, reused, credVars>>

\* upload_chunk, the call requests.post(upload_url, headers=headers, data=file_chunk)
upload_chunk_request ==
    /\ pc = "upload_chunk"
    /\ chunkLog' = Append(chunkLog,
           [url |-> upload_url, Authorization |-> "Bearer " \o Str(fum_access_token),
            data |-> part])
    /\ pc' = "awaiting"
    /\ UNCHANGED <<fum_access_token, max_part_size, file, pos, fileOpen, part,
                   upload_url, sessionLog, respLog, upError, reused, credVars>>

\* An upload_file that drops upload_chunk's return value and keeps its target.
KeepTarget(current, o) == current

\* What upload_file binds upload_url to after a chunk:
\* upload_url = self.upload_chunk(...), which returns response.json().get('next_url').
NextTarget(current, o) == o.next_url

\* upload_chunk, from the return of requests.post on: raise_for_status, then the
\* next_url of the JSON (None when absent) becomes upload_file's upload_url.
upload_chunk_response(o) ==
    LET e == PostError(chunkLog[Len(chunkLog)].url, o.kind)
    IN /\ pc = "awaiting"
       /\ respLog' = Append(respLog,
              [error |-> e, next_url |-> IF e = None THEN o.next_url ELSE None])
       /\ upload_url' = IF e = None THEN NextTarget(upload_url, o) ELSE upload_url
       /\ pc' = IF e = None THEN "for" ELSE "failed"
       /\ upError' = e
       /\ UNCHANGED <<fum_access_token, max_part_size, file, pos, fileOpen,
                      part, sessionLog, chunkLog, reused, credVars>>

\* The generator upload_file abandoned at its yield is finalized by the
\* interpreter: GeneratorExit leaves the with block, which closes the file.
\* upload_file never closes the generator itself, so when this happens is the
\* interpreter's choice: with reference counting as soon as upload_file's frame
\* is unwound, otherwise at some later collection.
generator_close ==
    /\ pc = "failed"
    /\ fileOpen
    /\ fileOpen' = FALSE
    /\ UNCHANGED <<fum_access_token, max_part_size, pc, file, pos, part,
                   upload_url, sessionLog, chunkLog, respLog, upError, reused,
                   credVars>>

Init == OAuthInit /\ UploadInit

Next ==
    \/ \E a \in InstallAccess, r \in InstallRefresh, s \in Subdomains :
          set_oauth_credentials(a, r, s)
    \/ \E t \in InstallLongLive, s \in Subdomains : set_longlive_token(t, s)
    \/ \E c \in AuthCodes, s \in Subdomains, o \in TokenOutcomes :
          get_access_token(c, s, o)
    \/ \E o \in TokenOutcomes : refresh_access_token(o)
    \/ \E ep \in Endpoints, m \in HttpMethods, d \in {NoData, [data |-> "{}"]},
          o \in ApiOutcomes : _make_authenticated_request(ep, m, d, o)
    \/ \E st \in States, m \in Modes : get_authorization_url(st, m)
    \/ \E t \in Tokens : decode_jwt(t)
    \/ \E t \in Tokens, now \in Nows, y \in YearFormats :
          is_token_expired(t, now, y)

\* The credential life cycle of one OAuthClient.
Spec == Init /\ [][Next]_vars

UploadNext ==
    \/ \E t \in UploadTokens, m \in 1..MaxPartSize : FileUploadManager(t, m)
    \/ \E f \in Files : upload_file(f)
    \/ \E o \in SessionOutcomes : create_session(o)
    \/ upload_file_in_parts
    \/ upload_chunk_request
    \/ \E o \in ChunkOutcomes : upload_chunk_response(o)
    \/ generator_close

\* The upload protocol of one FileUploadManager.
UploadSpec == Init /\ [][UploadNext]_vars

(***************************************************************************)
(* Properties of upload_file (under UploadSpec)                            *)
(***************************************************************************)
\* C1: the request for chunk N+1 is issued only after the response to chunk N
\* has been received, and goes to exactly the next_url that response carried
\* (None when it carried none); the first chunk goes to the upload_url that
\* create_session returned.
C1_ChunksFollowResponses ==
    /\ Len(respLog) <= Len(chunkLog)
    /\ Len(chunkLog) <= Len(respLog) + 1
    /\ \A i \in 1..Len(chunkLog) :
          IF i = 1
          THEN /\ Len(sessionLog) = 1
               /\ sessionLog[1].error = None
               /\ chunkLog[1].url = sessionLog[1].upload_url
          ELSE /\ respLog[i - 1].error = None
               /\ chunkLog[i].url = respLog[i - 1].next_url

\* Three chunks were requested, each at a URL other than the one before.
C1_Witness ==
    /\ Len(chunkLog) = 3
    /\ chunkLog[2].url # chunkLog[1].url
    /\ chunkLog[3].url # chunkLog[2].url
    /\ chunkLog[3].url # None

\* C2: once a chunk response carries no next_url, upload_file makes no further
\* chunk request, whatever is left of the file.
C2_StopsWithoutNextUrl ==
    \A i \in 1..Len(respLog) :
        (respLog[i].error = None /\ respLog[i].next_url = None)
            => Len(chunkLog) = i

RECURSIVE Concat(_, _)
\* The bodies of the first n chunk requests, concatenated.
Concat(log, n) == IF n = 0 THEN <<>> ELSE Concat(log, n - 1) \o log[n].data

\* C3: when every request succeeds, one upload_file makes exactly one
\* create_session call, before any chunk request, and ceil(S/M) chunk requests
\* whose bodies are the file's consecutive byte ranges: each non-empty and at
\* most M bytes, each but the last exactly M bytes, together the file.
C3_ChunksAreTheFile ==
    /\ Len(sessionLog) <= 1
    /\ chunkLog # <<>> => Len(sessionLog) = 1 /\ sessionLog[1].error = None
    /\ \A i \in 1..Len(chunkLog) :
          /\ Len(chunkLog[i].data) >= 1
          /\ Len(chunkLog[i].data) <= max_part_size
          /\ i < Len(chunkLog) => Len(chunkLog[i].data) = max_part_size
    /\ pc = "done" =>
          /\ Len(sessionLog) = 1
          /\ Len(chunkLog) = (Len(file) + max_part_size - 1) \div max_part_size
          /\ Concat(chunkLog, Len(chunkLog)) = file

\* An upload that ended well in three chunks, two full and a shorter last one.
C3_Witness ==
    /\ pc = "done"
    /\ Len(chunkLog) = 3
    /\ Len(chunkLog[2].data) = max_part_size
    /\ Len(chunkLog[3].data) < max_part_size

\* C4: if the upload of chunk K fails (a 4xx/5xx status, a transport failure),
\* no later chunk is requested and upload_file ends with ChunkUploadError.
C4_FailsFastWithChunkUploadError ==
    \A i \in 1..Len(respLog) :
        respLog[i].error \in {"requests.HTTPError", "requests.ConnectionError"}
            => /\ Len(chunkLog) = i
               /\ pc = "failed"
               /\ upError = "ChunkUploadError"

(***************************************************************************)
(* Properties of the OAuth client (under Spec)                             *)
(***************************************************************************)
\* The credential state of the client.
creds == <<access_token, refresh_token, longlive_token, base_url>>

\* C5: a successful refresh_access_token whose response holds no refresh_token
\* leaves the stored refresh_token as it was.
C5_RefreshKeepsOmittedRefreshToken ==
    [][(/\ lastOp' = "refresh_access_token"
        /\ error' = None
        /\ result'.refresh_token = None) => refresh_token' = refresh_token]_vars

\* C6: a refresh_access_token that fails leaves access_token, refresh_token,
\* longlive_token and base_url as they were before the call.
C6_FailedRefreshKeepsCredentials ==
    [][(lastOp' = "refresh_access_token" /\ error' # None)
           => UNCHANGED creds]_vars

\* A refresh that posted, was answered with a status other than 200, and left
\* an authenticated client behind.
C6_Witness ==
    /\ lastOp = "refresh_access_token"
    /\ error = "OAuthError: Failed to post"
    /\ sent # <<>>
    /\ Truthy(access_token)
    /\ Truthy(refresh_token)

\* C7: a get_access_token that fails with the client's OAuthError (a status
\* other than 200, a transport failure) on a client that already holds
\* credentials leaves access_token, refresh_token, longlive_token and base_url
\* as they were before the call, whatever the subdomain it named.
C7_FailedExchangeKeepsCredentials ==
    [][(/\ lastOp' = "get_access_token"
        /\ error' \in {"OAuthError: Failed to post", "OAuthError: Request failed"}
        /\ base_url # None)
           => UNCHANGED creds]_vars

\* C8: refresh_access_token with no refresh_token stored raises the
\* "No refresh token available" OAuthError, calls requests not at all and
\* changes no credential field.
C8_RefreshWithoutRefreshToken ==
    [][(lastOp' = "refresh_access_token" /\ ~Truthy(refresh_token))
           => /\ error' = "OAuthError: No refresh token available"
              /\ sent' = <<>>
              /\ UNCHANGED creds]_vars

\* A refresh refused for want of a refresh_token, on a client that holds an
\* access token of the token endpoint.
C8_Witness ==
    /\ lastOp = "refresh_access_token"
    /\ error = "OAuthError: No refresh token available"
    /\ access_token \in RespAccess \ {None}
    /\ refresh_token = None
    /\ base_url # None

\* The last operation was an authenticated request that reached requests.
RequestMade == lastOp = "_make_authenticated_request" /\ sent # <<>>

\* C9 as the specification states it: of set_oauth_credentials and
\* set_longlive_token the one called last decides the bearer of the next
\* authenticated request (tokens that are not empty).
C9_LastInstallDecidesBearer ==
    (RequestMade /\ Len(installOrder) = 2
        /\ Truthy(access_token) /\ Truthy(longlive_token))
    => sent[1].headers =
          "Bearer " \o (IF installOrder[2] = "set_oauth_credentials"
                        THEN access_token ELSE longlive_token)

\* C9, amended: after both set_longlive_token (with a token that is not empty)
\* and set_oauth_credentials, in either order, the next authenticated request
\* carries the long-lived token; set_oauth_credentials does not displace it.
C9_LongLiveSurvivesInstall ==
    (RequestMade /\ Len(installOrder) = 2 /\ Truthy(longlive_token))
    => sent[1].headers = "Bearer " \o longlive_token

\* An authenticated request made after set_longlive_token and then
\* set_oauth_credentials, both with tokens that are not empty.
C9_Witness ==
    /\ RequestMade
    /\ installOrder = <<"set_longlive_token", "set_oauth_credentials">>
    /\ Truthy(access_token)
    /\ Truthy(longlive_token)

\* C10: every authenticated request carries the long-lived token when one is
\* set (not None, not empty), and the access token only when none is.
C10_LongLivePreferred ==
    RequestMade
    => sent[1].headers =
          (IF Truthy(longlive_token) THEN "Bearer " \o longlive_token
           ELSE "Bearer " \o Str(access_token))

\* An authenticated request of a client that holds both an access token
\* obtained from the token endpoint and a long-lived token.
C10_Witness ==
    /\ RequestMade
    /\ access_token \in RespAccess \ {None}
    /\ Truthy(longlive_token)

\* C11: once base_url has been set, no operation of the client, successful or
\* failing, returns it to None.
C11_BaseUrlStaysSet ==
    [][base_url # None => base_url' # None]_vars

\* An operation failed on a client whose base_url had been set by an earlier
\* one, and base_url is still set.
C11_Witness ==
    /\ lastOp \in {"get_access_token", "refresh_access_token"}
    /\ error # None
    /\ installOrder # <<>>
    /\ base_url # None


C13_NoRawTransportError ==
    upError \notin {"requests.ConnectionError", "requests.HTTPError",
                    "requests.MissingSchema"}

\* C20: every upload_file call creates its own session and starts from the
\* beginning of its file with the URL of that session, whatever the previous
\* call did; when creating the session fails the call fails with that error,
\* no chunk has been sent and no file has been opened.
C20_FreshSessionPerCall ==
    /\ pc \notin {"idle", "create_session"} => Len(sessionLog) = 1
    /\ chunkLog # <<>> =>
          /\ sessionLog[1].error = None
          /\ chunkLog[1].url = sessionLog[1].upload_url
          /\ chunkLog[1].data = SubSeq(file, 1, Len(chunkLog[1].data))
          /\ chunkLog[1].data # <<>>
    /\ (sessionLog # <<>> /\ sessionLog[1].error # None) =>
          /\ pc = "failed"
          /\ upError = sessionLog[1].error
          /\ chunkLog = <<>>
          /\ respLog = <<>>
          /\ pos = 0
          /\ ~fileOpen

\* A call whose session creation failed, made after an earlier call of the
\* same manager had ended.
C20_Witness ==
    /\ reused
    /\ pc = "failed"
    /\ sessionLog # <<>>
    /\ sessionLog[1].error # None
    /\ file # <<>>


\* C14: _make_authenticated_request makes exactly one call to requests for a
\* method the HTTP collaborator has (GET, POST, PATCH, PUT), whatever the
\* response status (and none for another method, which it rejects), and it,
\* get_authorization_url, decode_jwt and
\* is_token_expired leave access_token, refresh_token, longlive_token and
\* base_url as they were; the three read operations send nothing.
C14_RequestsAndReadsKeepCredentials ==
    [][/\ (lastOp' = "_make_authenticated_request") =>
             (/\ creds' = creds
              /\ Len(sent') = IF args'.method \in {"GET", "POST", "PATCH", "PUT"}
                              THEN 1 ELSE 0)
       /\ (lastOp' \in {"get_authorization_url", "decode_jwt",
                        "is_token_expired"}) =>
             (/\ creds' = creds
              /\ sent' = <<>>)]_vars

\* A request answered with 401 on a client that holds a refresh token: one
\* call was made, with the access token the client still holds.
C14_Witness ==
    /\ lastOp = "_make_authenticated_request"
    /\ args.outcome.transport = FALSE
    /\ args.outcome.status = 401
    /\ Truthy(refresh_token)
    /\ Truthy(access_token)
    /\ longlive_token = None
    /\ Len(sent) = 1
    /\ sent[1].headers = "Bearer " \o access_token


\* C15: a get_access_token that returned has set base_url from its subdomain,
\* stored the access_token and the refresh_token of the response and returned
\* them as they came; a 200 response with an access_token and no refresh_token
\* is such a success.
C15_ExchangeStoresAndReturnsTokens ==
    lastOp = "get_access_token" =>
        /\ error = None =>
              /\ base_url = BaseUrlOf(args.subdomain)
              /\ access_token = args.outcome.access_token
              /\ refresh_token = args.outcome.refresh_token
              /\ result = [access_token |-> args.outcome.access_token,
                           refresh_token |-> args.outcome.refresh_token]
              /\ access_token # None
        /\ (/\ ~args.outcome.transport
            /\ args.outcome.status = 200
            /\ args.outcome.access_token # None) => (error = None)

\* An exchange answered with an access_token and no refresh_token.
C15_Witness ==
    /\ lastOp = "get_access_token"
    /\ error = None
    /\ args.outcome.refresh_token = None
    /\ access_token = args.outcome.access_token
    /\ Truthy(access_token)


\* C16: is_token_expired returns None for a None token, True when the exp of
\* the token is an earlier second than the current one and False when it is
\* the same or a later second, for every exp and every current time.
C16_ExpiryMatchesInstantOrder ==
    lastOp = "is_token_expired" =>
        /\ args.token = None => (error = None /\ result.value = None)
        /\ (/\ args.token # None
            /\ decoded[args.token].error = None
            /\ "exp" \in DOMAIN decoded[args.token].payload) =>
              /\ error = None
              /\ result.value =
                    IF Before(decoded[args.token].payload.exp, args.now)
                    THEN True ELSE False

\* C17: is_token_expired of a token whose payload is a JSON object without exp
\* raises MissingExpiryClaimError.
C17_MissingExpRaisesMissingExpiryClaimError ==
    (/\ lastOp = "is_token_expired"
     /\ args.token # None
     /\ decoded[args.token].error = None
     /\ "exp" \notin DOMAIN decoded[args.token].payload)
        => (error = "MissingExpiryClaimError")

\* Whether the query of url has a parameter named key.
HasParam(url, key) ==
    Contains(url, "?" \o key \o "=") \/ Contains(url, "&" \o key \o "=")

\* C18: the URL of get_authorization_url has client_id, has state exactly when
\* state was given, and has mode exactly when mode was given and state was not.
C18_AtMostOneOfStateAndMode ==
    lastOp = "get_authorization_url" =>
        /\ HasParam(result.value, "client_id")
        /\ HasParam(result.value, "state") <=> (args.state # None)
        /\ HasParam(result.value, "mode") <=>
              (args.state = None /\ args.mode # None)

\* C19: whenever one of access_token, refresh_token, longlive_token is set,
\* base_url is set, and a refresh_access_token that got past its refresh_token
\* check posted to a URL made from a base_url that was set.
C19_TokensImplyBaseUrl ==
    /\ (access_token # None \/ refresh_token # None \/ longlive_token # None)
          => (base_url # None)
    /\ (lastOp = "refresh_access_token" /\ sent # <<>>) =>
          /\ HasScheme(sent[1].url)
          /\ sent[1].url = base_url \o "/oauth2/access_token"

\* A refresh that posted, and failed, on a client without a long-lived token.
C19_Witness ==
    /\ lastOp = "refresh_access_token"
    /\ Len(sent) = 1
    /\ error # None
    /\ Truthy(refresh_token)
    /\ longlive_token = None
    /\ base_url # None

====
